---------------------------- MODULE Spec2Model ----------------------------
(* A model of the OpenAPI scoring engine (ScoringEngine) and of the        *)
(* structural validator (OpenAPILoader.validate).                          *)
(*                                                                         *)
(* Numbers are JavaScript numbers modelled in fixed point: the integer v   *)
(* of a "num" value stands for v / Unit, so that fractional weights and    *)
(* the two-decimal rounding of the overall score are representable.  NaN   *)
(* and undefined are values of their own.                                  *)
(*                                                                         *)
(* Strings that the code takes apart (path keys, status codes, the openapi *)
(* version) are sequences of one-character strings; strings that are only  *)
(* compared as a whole are TLA+ strings.  An optional field is a sequence  *)
(* of length 0 (absent) or 1 (present).                                    *)
EXTENDS Integers, Sequences, FiniteSets, TLC

VARIABLES
    pc,         \* "new" | "ready" | "scored" | "threw"
    given,      \* the configuration object handed to the constructor
    config,     \* this.config (the weights object of the engine)
    aliased,    \* this.config.weights is the very object given.weights
    spec,       \* the caller's document after the last score(), <<>> before
    report,     \* the report the last score() returned, <<>> if none
    calls       \* the score() calls so far: the argument and what came back

vars == <<pc, given, config, aliased, spec, report, calls>>

-----------------------------------------------------------------------------
(* Optional values *)

Absent == <<>>
Some(v) == <<v>>
Has(o) == Len(o) > 0
Get(o) == o[1]

-----------------------------------------------------------------------------
(* JavaScript numbers *)

Unit == 1000

Num(v) == [t |-> "num", v |-> v]
Pts(n) == Num(n * Unit)
NaN == [t |-> "NaN", v |-> 0]
Undefined == [t |-> "undefined", v |-> 0]
IsNum(x) == x.t = "num"

JsAdd(a, b) == IF IsNum(a) /\ IsNum(b) THEN Num(a.v + b.v) ELSE NaN
JsSub(a, b) == IF IsNum(a) /\ IsNum(b) THEN Num(a.v - b.v) ELSE NaN
\* Math.max(0, x)
MathMax0(x) == IF IsNum(x) THEN (IF x.v > 0 THEN x ELSE Num(0)) ELSE NaN
\* x >= n, false for NaN and undefined
JsGe(x, n) == IsNum(x) /\ x.v >= n * Unit
\* Round2 with Math.floor in the place of Math.round
Round2Truncating(x) ==
    IF IsNum(x) THEN Num((x.v \div (Unit \div 100)) * (Unit \div 100)) ELSE NaN

\* Math.round(x * 100) / 100 : to the nearest hundredth, halves upwards
Round2(x) ==
    IF IsNum(x) THEN Num(((x.v + (Unit \div 200)) \div (Unit \div 100)) * (Unit \div 100))
    ELSE NaN

-----------------------------------------------------------------------------
(* JavaScript strings that are taken apart, as sequences of characters *)

startsWith(s, c) == Len(s) > 0 /\ s[1] = c
endsWith(s, c) == Len(s) > 0 /\ s[Len(s)] = c
includes(s, c) == \E i \in 1..Len(s) : s[i] = c
\* a non-empty TLA+ string is truthy
Truthy(o) == Has(o) /\ Get(o) # ""

\* s.split('/') : the pieces between the separators, empty pieces included
split(s, sep) ==
    LET f[i \in 0..Len(s)] ==
            IF i = 0 THEN << <<>> >>
            ELSE LET pieces == f[i-1]
                 IN IF s[i] = sep THEN Append(pieces, <<>>)
                    ELSE [pieces EXCEPT ![Len(pieces)] = Append(@, s[i])]
    IN f[Len(s)]

\* arr.filter(keep)
filter(keep(_), s) ==
    LET f[i \in 0..Len(s)] ==
            IF i = 0 THEN <<>>
            ELSE IF keep(s[i]) THEN Append(f[i-1], s[i]) ELSE f[i-1]
    IN f[Len(s)]

\* the issues pushed by a loop over s, in order
Concat(Body(_), s) ==
    LET f[i \in 0..Len(s)] == IF i = 0 THEN <<>> ELSE f[i-1] \o Body(s[i])
    IN f[Len(s)]

\* arr.some(p)
some(p(_), s) == \E i \in 1..Len(s) : p(s[i])

-----------------------------------------------------------------------------
(* Issues and the traversal of a path item *)

Issue(path, operation, location, description, detail, severity, criterion) ==
    [path |-> path, operation |-> operation, location |-> location,
     description |-> description, detail |-> detail,
     severity |-> severity, criterion |-> criterion]

\* a path that is a literal of the code and is never taken apart
Lit(str) == <<str>>

ScoredMethods == <<"get", "post", "put", "patch", "delete">>
CountedMethods == <<"get", "post", "put", "patch", "delete", "options", "head", "trace">>
ValidatedMethods == <<"get", "put", "post", "delete", "options", "head", "patch", "trace">>

\* (pathItem as any)[method]
GetOp(item, m) ==
    LET hits == filter(LAMBDA e : e.method = m, item.ops)
    IN IF hits = <<>> THEN Absent ELSE Some(hits[1].op)

\* for (const method of methods) { const operation = pathItem[method]; if (operation) ...
OpsOf(item, methods) ==
    Concat(LAMBDA m : IF Has(GetOp(item, m))
                      THEN << [method |-> m, op |-> Get(GetOp(item, m))] >>
                      ELSE <<>>,
           methods)

\* Object.entries(spec.paths), or nothing when spec.paths is absent
PathEntries(d) == IF Has(d.paths) THEN Get(d.paths) ELSE <<>>
PathKeys(d) == [i \in 1..Len(PathEntries(d)) |-> PathEntries(d)[i].key]

-----------------------------------------------------------------------------
(* Schema & Types *)

validateSchemaTypes(schemaName, schema) ==
    (IF ~Truthy(schema.type) /\ ~schema.ref /\ ~schema.allOf /\ ~schema.oneOf /\ ~schema.anyOf
     THEN << Issue(Lit("/components/schemas/"), "", "schema", "lacks type definition",
                   <<schemaName>>, "medium", "Schema & Types") >>
     ELSE <<>>)
    \o
    (IF schema.type = Some("object") /\ ~schema.properties /\ ~schema.additionalProperties
     THEN << Issue(Lit("/components/schemas/"), "", "schema", "has no defined properties",
                   <<schemaName>>, "medium", "Schema & Types") >>
     ELSE <<>>)

hasSchemaReference(obj) ==
    \/ obj.schema
    \/ /\ Has(obj.content)
       /\ some(LAMBDA contentType : contentType.schema, Get(obj.content))

checkOperationSchemas(d) ==
    Concat(LAMBDA e :
        Concat(LAMBDA mo :
            (IF Has(mo.op.requestBody) /\ ~hasSchemaReference(Get(mo.op.requestBody))
             THEN << Issue(e.key, mo.method, "requestBody",
                           "Request body lacks proper schema definition", <<>>,
                           "medium", "Schema & Types") >>
             ELSE <<>>)
            \o
            (IF Has(mo.op.responses)
             THEN Concat(LAMBDA r :
                    IF ~hasSchemaReference(r.response)
                    THEN << Issue(e.key, mo.method, "responses",
                                  "Response lacks proper schema definition", r.code,
                                  "medium", "Schema & Types") >>
                    ELSE <<>>,
                    Get(mo.op.responses))
             ELSE <<>>),
            OpsOf(e.item, ScoredMethods)),
        PathEntries(d))

\* spec.components?.schemas, as the list of its entries
Schemas(d) ==
    IF Has(d.components) /\ Has(Get(d.components).schemas)
    THEN Get(d.components).schemas ELSE Absent

SchemaTypesIssues(d) ==
    (IF ~Has(Schemas(d)) \/ Len(Get(Schemas(d))) = 0
     THEN << Issue(Lit("/components/schemas"), "", "components",
                   "No reusable schemas defined in components", <<>>,
                   "medium", "Schema & Types") >>
     ELSE <<>>)
    \o
    (IF Has(Schemas(d))
     THEN Concat(LAMBDA s : validateSchemaTypes(s.name, s.schema), Get(Schemas(d)))
     ELSE <<>>)
    \o
    checkOperationSchemas(d)

-----------------------------------------------------------------------------
(* Descriptions & Documentation *)

checkPathDocumentation(path, pathItem) ==
    Concat(LAMBDA mo :
        (IF ~Truthy(mo.op.summary) /\ ~Truthy(mo.op.description)
         THEN << Issue(path, mo.method, "operation",
                       "Operation lacks summary and description", <<>>,
                       "medium", "Descriptions & Documentation") >>
         ELSE <<>>)
        \o
        (IF Has(mo.op.parameters)
         THEN Concat(LAMBDA param :
                IF ~Truthy(param.description)
                THEN << Issue(path, mo.method, "parameters",
                              "Parameter lacks description", <<param.name>>,
                              "low", "Descriptions & Documentation") >>
                ELSE <<>>,
                Get(mo.op.parameters))
         ELSE <<>>),
        OpsOf(pathItem, ScoredMethods))

DocumentationIssues(d) ==
    (IF ~Truthy(Get(d.info).description)
     THEN << Issue(Lit("/info"), "", "info.description", "API description is missing",
                   <<>>, "medium", "Descriptions & Documentation") >>
     ELSE <<>>)
    \o
    Concat(LAMBDA e : checkPathDocumentation(e.key, e.item), PathEntries(d))

-----------------------------------------------------------------------------
(* Paths & Operations *)

\* checkPathNaming without the exemption of the root path
checkPathNamingOfRootToo(pathKeys) ==
    Concat(LAMBDA path :
        (IF includes(path, "_")
         THEN << Issue(path, "", "path", "Path uses underscores", <<>>,
                       "low", "Paths & Operations") >>
         ELSE <<>>)
        \o
        (IF endsWith(path, "/")
         THEN << Issue(path, "", "path", "Path has trailing slash", <<>>,
                       "low", "Paths & Operations") >>
         ELSE <<>>),
        pathKeys)

checkPathNaming(pathKeys) ==
    Concat(LAMBDA path :
        (IF includes(path, "_")
         THEN << Issue(path, "", "path", "Path uses underscores", <<>>,
                       "low", "Paths & Operations") >>
         ELSE <<>>)
        \o
        (IF endsWith(path, "/") /\ path # <<"/">>
         THEN << Issue(path, "", "path", "Path has trailing slash", <<>>,
                       "low", "Paths & Operations") >>
         ELSE <<>>),
        pathKeys)

\* path.split('/').filter(s => s && !s.startsWith('{'))
ResourceSegments(path) ==
    filter(LAMBDA s : s # <<>> /\ ~startsWith(s, "{"), split(path, "/"))

\* the Map resource -> paths, as its entries in insertion order
ResourceMap(pathKeys) ==
    LET put(m, path) ==
            LET segments == ResourceSegments(path)
                resource == segments[Len(segments)]
            IN IF Len(segments) = 0 THEN m
               ELSE IF \E k \in 1..Len(m) : m[k].resource = resource
               THEN [k \in 1..Len(m) |->
                        IF m[k].resource = resource
                        THEN [m[k] EXCEPT !.paths = Append(@, path)]
                        ELSE m[k]]
               ELSE Append(m, [resource |-> resource, paths |-> <<path>>])
        f[i \in 0..Len(pathKeys)] == IF i = 0 THEN <<>> ELSE put(f[i-1], pathKeys[i])
    IN f[Len(pathKeys)]

\* paths[path]
ItemAt(entries, path) ==
    (CHOOSE e \in {entries[i] : i \in 1..Len(entries)} : e.key = path).item

checkCrudConsistency(entries) ==
    Concat(LAMBDA g :
        IF Len(g.paths) = 1
        THEN LET path == g.paths[1]
                 pathItem == ItemAt(entries, path)
                 methods == filter(LAMBDA e : \E k \in 1..Len(ScoredMethods) :
                                                 ScoredMethods[k] = e.method,
                                   pathItem.ops)
             IN IF Len(methods) = 1
                THEN << Issue(path, "", "operations", "Resource only has one operation",
                              g.resource, "low", "Paths & Operations") >>
                ELSE <<>>
        ELSE <<>>,
        ResourceMap([i \in 1..Len(entries) |-> entries[i].key]))

\* pathsOverlap that lets only a parameter of the first path match
pathsOverlapOneSided(path1, path2) ==
    LET segments1 == filter(LAMBDA s : s # <<>>, split(path1, "/"))
        segments2 == filter(LAMBDA s : s # <<>>, split(path2, "/"))
    IN /\ Len(segments1) = Len(segments2)
       /\ \A i \in 1..Len(segments1) :
             segments1[i] = segments2[i] \/ startsWith(segments1[i], "{")

pathsOverlap(path1, path2) ==
    LET segments1 == filter(LAMBDA s : s # <<>>, split(path1, "/"))
        segments2 == filter(LAMBDA s : s # <<>>, split(path2, "/"))
        \* the loop over the positions: FALSE once a position returned false
        loop[i \in 0..Len(segments1)] ==
            IF i = 0 THEN TRUE
            ELSE IF ~loop[i-1] THEN FALSE
            ELSE IF /\ segments1[i] # segments2[i]
                    /\ ~startsWith(segments1[i], "{")
                    /\ ~startsWith(segments2[i], "{")
                 THEN FALSE
                 ELSE TRUE
    IN IF Len(segments1) # Len(segments2) THEN FALSE
       ELSE loop[Len(segments1)]

checkOverlappingPaths(pathKeys) ==
    Concat(LAMBDA i :
        Concat(LAMBDA j :
            IF j > i /\ pathsOverlap(pathKeys[i], pathKeys[j])
            THEN << Issue(pathKeys[i], "", "path", "Path overlaps with", pathKeys[j],
                          "medium", "Paths & Operations") >>
            ELSE <<>>,
            [k \in 1..Len(pathKeys) |-> k]),
        [k \in 1..Len(pathKeys) |-> k])

\* the guard of the short-circuit: !spec.paths
NoPaths(d) == ~Has(d.paths)

NoPathsIssue ==
    Issue(Lit("/paths"), "", "paths", "No paths defined", <<>>,
          "critical", "Paths & Operations")

PathsOperationsIssues(d) ==
    IF NoPaths(d) THEN << NoPathsIssue >>
    ELSE checkPathNaming(PathKeys(d))
         \o checkCrudConsistency(PathEntries(d))
         \o checkOverlappingPaths(PathKeys(d))

-----------------------------------------------------------------------------
(* Response Codes *)

\* Object.keys(operation.responses)
ResponseCodesOf(operation) ==
    [i \in 1..Len(Get(operation.responses)) |-> Get(operation.responses)[i].code]

Code(str) ==
    CASE str = "200" -> <<"2", "0", "0">>
      [] str = "201" -> <<"2", "0", "1">>
      [] str = "204" -> <<"2", "0", "4">>
      [] str = "default" -> <<"d", "e", "f", "a", "u", "l", "t">>

\* checkMethodSpecificResponses that accepts only 201 of a POST, not 200
checkMethodSpecificResponsesStrict(path, method, operation) ==
    LET responseCodes == ResponseCodesOf(operation)
        lists(c) == some(LAMBDA code : code = Code(c), responseCodes)
    IN CASE method = "post" ->
              IF ~lists("201")
              THEN << Issue(path, method, "responses",
                            "POST operation should typically return 201 (Created) or 200",
                            <<>>, "low", "Response Codes") >>
              ELSE <<>>
         [] method = "delete" ->
              IF ~lists("204") /\ ~lists("200")
              THEN << Issue(path, method, "responses",
                            "DELETE operation should typically return 204 (No Content) or 200",
                            <<>>, "low", "Response Codes") >>
              ELSE <<>>
         [] OTHER -> <<>>

checkMethodSpecificResponses(path, method, operation) ==
    LET responseCodes == ResponseCodesOf(operation)
        lists(c) == some(LAMBDA code : code = Code(c), responseCodes)
    IN CASE method = "post" ->
              IF ~lists("201") /\ ~lists("200")
              THEN << Issue(path, method, "responses",
                            "POST operation should typically return 201 (Created) or 200",
                            <<>>, "low", "Response Codes") >>
              ELSE <<>>
         [] method = "delete" ->
              IF ~lists("204") /\ ~lists("200")
              THEN << Issue(path, method, "responses",
                            "DELETE operation should typically return 204 (No Content) or 200",
                            <<>>, "low", "Response Codes") >>
              ELSE <<>>
         [] OTHER -> <<>>

checkOperationResponses(path, pathItem) ==
    Concat(LAMBDA mo :
        IF Has(mo.op.responses)
        THEN LET responseCodes == ResponseCodesOf(mo.op)
                 hasSuccess == some(LAMBDA code : startsWith(code, "2") \/ code = Code("default"),
                                    responseCodes)
                 hasClientError == some(LAMBDA code : startsWith(code, "4"), responseCodes)
                 hasServerError == some(LAMBDA code : startsWith(code, "5"), responseCodes)
             IN (IF ~hasSuccess
                 THEN << Issue(path, mo.method, "responses",
                               "No success response (2xx) defined", <<>>,
                               "high", "Response Codes") >>
                 ELSE <<>>)
                \o
                (IF ~hasClientError /\ ~hasServerError
                 THEN << Issue(path, mo.method, "responses",
                               "No error responses (4xx/5xx) defined", <<>>,
                               "medium", "Response Codes") >>
                 ELSE <<>>)
                \o
                checkMethodSpecificResponses(path, mo.method, mo.op)
        ELSE <<>>,
        OpsOf(pathItem, ScoredMethods))

ResponseCodesIssues(d) ==
    Concat(LAMBDA e : checkOperationResponses(e.key, e.item), PathEntries(d))

-----------------------------------------------------------------------------
(* Examples & Samples *)

hasExamplesInContent(obj) ==
    \/ obj.example \/ obj.examples
    \/ /\ Has(obj.content)
       /\ some(LAMBDA contentType : contentType.example \/ contentType.examples,
               Get(obj.content))

checkExamples(path, pathItem) ==
    Concat(LAMBDA mo :
        LET fromBody == IF Has(mo.op.requestBody)
                        THEN hasExamplesInContent(Get(mo.op.requestBody))
                        ELSE FALSE
            hasExamples ==
                IF /\ Has(mo.op.responses)
                   /\ some(LAMBDA r : hasExamplesInContent(r.response), Get(mo.op.responses))
                THEN TRUE
                ELSE fromBody
        IN IF ~hasExamples
           THEN << Issue(path, mo.method, "examples", "Operation lacks examples", <<>>,
                         "low", "Examples & Samples") >>
           ELSE <<>>,
        OpsOf(pathItem, ScoredMethods))

ExamplesIssues(d) ==
    Concat(LAMBDA e : checkExamples(e.key, e.item), PathEntries(d))

-----------------------------------------------------------------------------
(* Security *)

checkOperationSecurity(d) ==
    Concat(LAMBDA e :
        Concat(LAMBDA mo :
            LET hasGlobalSecurity == Has(d.security) /\ Len(Get(d.security)) > 0
                hasOperationSecurity == Has(mo.op.security) /\ Len(Get(mo.op.security)) > 0
            IN IF ~hasGlobalSecurity /\ ~hasOperationSecurity
               THEN << Issue(e.key, mo.method, "security",
                             "Operation has no security requirements", <<>>,
                             "medium", "Security") >>
               ELSE <<>>,
            OpsOf(e.item, ScoredMethods)),
        PathEntries(d))

\* spec.components?.securitySchemes, as the list of its entries
SecuritySchemes(d) ==
    IF Has(d.components) /\ Has(Get(d.components).securitySchemes)
    THEN Get(d.components).securitySchemes ELSE Absent

NoSchemes(d) == ~Has(SecuritySchemes(d)) \/ Len(Get(SecuritySchemes(d))) = 0
NoGlobalSecurity(d) == ~Has(d.security) \/ Len(Get(d.security)) = 0

SecurityIssues(d) ==
    (IF NoSchemes(d)
     THEN << Issue(Lit("/components/securitySchemes"), "", "components",
                   "No security schemes defined", <<>>, "high", "Security") >>
     ELSE <<>>)
    \o
    (IF NoGlobalSecurity(d)
     THEN << Issue(Lit("/security"), "", "root",
                   "No global security requirements defined", <<>>, "medium", "Security") >>
     ELSE <<>>)
    \o
    (IF Has(d.paths) THEN checkOperationSecurity(d) ELSE <<>>)

-----------------------------------------------------------------------------
(* Best Practices *)

\* the operations of the document that the evaluators walk, in order
AllScoredOps(d) == Concat(LAMBDA e : OpsOf(e.item, ScoredMethods), PathEntries(d))

\* a Set built by add(), as its elements in insertion order
AddAll(set, s) ==
    LET f[i \in 0..Len(s)] ==
            IF i = 0 THEN set
            ELSE LET sofar == f[i-1]
                 IN IF \E k \in 1..Len(sofar) : sofar[k] = s[i] THEN sofar
                    ELSE Append(sofar, s[i])
    IN f[Len(s)]

checkTagsUsage(d) ==
    LET definedTags == IF Has(d.tags)
                       THEN {Get(d.tags)[i].name : i \in 1..Len(Get(d.tags))}
                       ELSE {}
        ops == AllScoredOps(d)
        collect[i \in 0..Len(ops)] ==
            IF i = 0 THEN <<>>
            ELSE IF Has(ops[i].op.tags) THEN AddAll(collect[i-1], Get(ops[i].op.tags))
            ELSE collect[i-1]
        usedTags == collect[Len(ops)]
        operationsWithoutTags ==
            Len(filter(LAMBDA mo : ~Has(mo.op.tags) \/ Len(Get(mo.op.tags)) = 0, ops))
    IN Concat(LAMBDA usedTag :
            IF usedTag \notin definedTags
            THEN << Issue(Lit("/tags"), "", "tags", "Tag is used but not defined",
                          <<usedTag>>, "low", "Best Practices") >>
            ELSE <<>>,
            usedTags)
       \o
       (IF operationsWithoutTags > 0
        THEN << Issue(Lit("/paths"), "", "operations", "operations are not tagged",
                      <<ToString(operationsWithoutTags)>>, "low", "Best Practices") >>
        ELSE <<>>)

\* the same with the test of spec.components turned round
checkComponentReuseInverted(d) ==
    IF Has(d.components)
    THEN << Issue(Lit("/components"), "", "components", "No components defined for reuse",
                  <<>>, "low", "Best Practices") >>
    ELSE <<>>

checkComponentReuse(d) ==
    IF ~Has(d.components)
    THEN << Issue(Lit("/components"), "", "components", "No components defined for reuse",
                  <<>>, "low", "Best Practices") >>
    ELSE <<>>

DefaultVersion(d) == ~Truthy(Some(Get(d.info).version)) \/ Get(d.info).version = "1.0.0"
NoServers(d) == ~Has(d.servers) \/ Len(Get(d.servers)) = 0

BestPracticesIssues(d) ==
    (IF DefaultVersion(d)
     THEN << Issue(Lit("/info/version"), "", "info",
                   "API version should be meaningful, not default", <<>>,
                   "low", "Best Practices") >>
     ELSE <<>>)
    \o
    (IF NoServers(d)
     THEN << Issue(Lit("/servers"), "", "root", "No servers defined", <<>>,
                   "medium", "Best Practices") >>
     ELSE <<>>)
    \o
    (IF Has(d.paths) THEN checkTagsUsage(d) ELSE <<>>)
    \o
    checkComponentReuse(d)

-----------------------------------------------------------------------------
(* Deduction, the seven criterion results *)

\* Penalty without the case of a low issue
PenaltyWithoutLow(severity) ==
    CASE severity = "critical" -> 5
      [] severity = "high" -> 3
      [] severity = "medium" -> 2
      [] OTHER -> 0

Penalty(severity) ==
    CASE severity = "critical" -> 5
      [] severity = "high" -> 3
      [] severity = "medium" -> 2
      [] severity = "low" -> 1
      [] OTHER -> 0

calculateDeduction(issues) ==
    LET f[i \in 0..Len(issues)] ==
            IF i = 0 THEN 0 ELSE f[i-1] + Penalty(issues[i].severity)
    IN Pts(f[Len(issues)])

\* this.config.weights.<key>
Weight(w, key) == IF key \in DOMAIN w THEN Num(w[key]) ELSE Undefined

\* Clamp without the floor at zero: score = score - deduction
ClampWithoutFloor(score, deduction) == JsSub(score, deduction)

\* score = Math.max(0, score - deduction)
Clamp(score, deduction) == MathMax0(JsSub(score, deduction))

\* a result whose score loses the severity deduction only
ResultWithoutInline(criterion, weight, inline, issues) ==
    LET score == Clamp(weight, calculateDeduction(issues))
    IN [criterion |-> criterion, score |-> score, maxScore |-> weight,
        weight |-> weight, weightedScore |-> score, issues |-> issues]

\* the result an evaluator returns: `inline` is what its own `score -= n`
\* statements took off before the severity deduction
Result(criterion, weight, inline, issues) ==
    LET score == Clamp(JsSub(weight, Pts(inline)), calculateDeduction(issues))
    IN [criterion |-> criterion, score |-> score, maxScore |-> weight,
        weight |-> weight, weightedScore |-> score, issues |-> issues]

scoreSchemaTypes(d, w) ==
    Result("Schema & Types", Weight(w, "schemaTypes"),
           IF ~Has(Schemas(d)) \/ Len(Get(Schemas(d))) = 0 THEN 5 ELSE 0,
           SchemaTypesIssues(d))

scoreDocumentation(d, w) ==
    Result("Descriptions & Documentation", Weight(w, "documentation"),
           IF ~Truthy(Get(d.info).description) THEN 2 ELSE 0,
           DocumentationIssues(d))

scorePathsOperations(d, w) ==
    IF NoPaths(d)
    THEN [criterion |-> "Paths & Operations", score |-> Num(0),
          maxScore |-> Weight(w, "pathsOperations"),
          weight |-> Weight(w, "pathsOperations"),
          weightedScore |-> Num(0), issues |-> PathsOperationsIssues(d)]
    ELSE Result("Paths & Operations", Weight(w, "pathsOperations"), 0,
                PathsOperationsIssues(d))

scoreResponseCodes(d, w) ==
    Result("Response Codes", Weight(w, "responseCodes"), 0, ResponseCodesIssues(d))

scoreExamples(d, w) ==
    Result("Examples & Samples", Weight(w, "examples"), 0, ExamplesIssues(d))

\* scoreSecurity with the two inline amounts the other way round
scoreSecuritySwapped(d, w) ==
    Result("Security", Weight(w, "security"),
           (IF NoSchemes(d) THEN 3 ELSE 0) + (IF NoGlobalSecurity(d) THEN 5 ELSE 0),
           SecurityIssues(d))

scoreSecurity(d, w) ==
    Result("Security", Weight(w, "security"),
           (IF NoSchemes(d) THEN 5 ELSE 0) + (IF NoGlobalSecurity(d) THEN 3 ELSE 0),
           SecurityIssues(d))

scoreBestPractices(d, w) ==
    Result("Best Practices", Weight(w, "bestPractices"),
           (IF DefaultVersion(d) THEN 1 ELSE 0) + (IF NoServers(d) THEN 2 ELSE 0),
           BestPracticesIssues(d))

-----------------------------------------------------------------------------
(* score(): the report *)

calculateGrade(score) ==
    IF JsGe(score, 90) THEN "A"
    ELSE IF JsGe(score, 80) THEN "B"
    ELSE IF JsGe(score, 70) THEN "C"
    ELSE IF JsGe(score, 60) THEN "D"
    ELSE "F"

\* countOperations over the five methods the evaluators walk
countOperationsOfScoredMethods(d) ==
    IF ~Has(d.paths) THEN 0
    ELSE Len(Concat(LAMBDA e : OpsOf(e.item, ScoredMethods), PathEntries(d)))

countOperations(d) ==
    IF ~Has(d.paths) THEN 0
    ELSE Len(Concat(LAMBDA e : OpsOf(e.item, CountedMethods), PathEntries(d)))

\* CountSeverity with the critical severity misspelt, so that it matches no issue
CountSeverityMisspelt(allIssues, sev) ==
    IF sev = "critical" THEN 0
    ELSE Len(filter(LAMBDA i : i.severity = sev, allIssues))

\* allIssues.filter(i => i.severity === sev).length
CountSeverity(allIssues, sev) == Len(filter(LAMBDA i : i.severity = sev, allIssues))

\* the sum scaled to a total of 100: sum * 100 / (the whole of the weights)
SumWeightedNormalised(results) ==
    LET f[i \in 0..Len(results)] ==
            IF i = 0 THEN Num(0) ELSE JsAdd(f[i-1], results[i].weightedScore)
        g[i \in 0..Len(results)] ==
            IF i = 0 THEN Num(0) ELSE JsAdd(g[i-1], results[i].weight)
        sum == f[Len(results)]
        total == g[Len(results)]
    IN IF IsNum(sum) /\ IsNum(total) /\ total.v >= Unit
       THEN Num((sum.v * 100) \div (total.v \div Unit))
       ELSE sum

\* results.reduce((sum, result) => sum + result.weightedScore, 0)
SumWeighted(results) ==
    LET f[i \in 0..Len(results)] ==
            IF i = 0 THEN Num(0) ELSE JsAdd(f[i-1], results[i].weightedScore)
    IN f[Len(results)]

\* the results of the evaluators that had paths to look at
ResultsOfPathsOnly(d, w) ==
    IF NoPaths(d)
    THEN << scoreSchemaTypes(d, w), scoreDocumentation(d, w), scoreSecurity(d, w),
            scoreBestPractices(d, w) >>
    ELSE << scoreSchemaTypes(d, w), scoreDocumentation(d, w), scorePathsOperations(d, w),
            scoreResponseCodes(d, w), scoreExamples(d, w), scoreSecurity(d, w),
            scoreBestPractices(d, w) >>

Results(d, w) ==
    << scoreSchemaTypes(d, w), scoreDocumentation(d, w), scorePathsOperations(d, w),
       scoreResponseCodes(d, w), scoreExamples(d, w), scoreSecurity(d, w),
       scoreBestPractices(d, w) >>

Report(d, w) ==
    LET results == Results(d, w)
        overallScore == SumWeighted(results)
        allIssues == Concat(LAMBDA r : r.issues, results)
    IN [overallScore |-> Round2(overallScore),
        grade |-> calculateGrade(overallScore),
        maxScore |-> 100,
        results |-> results,
        totalIssues |-> Len(allIssues),
        summary |-> [criticalIssues |-> CountSeverity(allIssues, "critical"),
                     highIssues |-> CountSeverity(allIssues, "high"),
                     mediumIssues |-> CountSeverity(allIssues, "medium"),
                     lowIssues |-> CountSeverity(allIssues, "low")],
        specInfo |-> [title |-> IF Has(d.info) /\ Get(d.info).title # ""
                                THEN Get(d.info).title ELSE "Unknown",
                      version |-> IF Has(d.info) /\ Get(d.info).version # ""
                                  THEN Get(d.info).version ELSE "Unknown",
                      pathCount |-> Len(PathEntries(d)),
                      operationCount |-> countOperations(d)]]

\* score() ends in a TypeError: a property is read of null or undefined.
\*   (pathItem as any)[method] of a null path item; spec.info.description of
\*   an absent info; schema.type of a null schema
ScoreThrows(d) ==
    \/ \E i \in 1..Len(PathEntries(d)) : PathEntries(d)[i].item.isNull
    \/ ~Has(d.info)
    \/ /\ Has(Schemas(d))
       /\ \E i \in 1..Len(Get(Schemas(d))) : Get(Schemas(d))[i].schema.isNull

-----------------------------------------------------------------------------
(* OpenAPILoader.validate *)

validateOperation(operation) ==
    \* parameters is an array in every document of the model
    IF ~Has(operation.responses) THEN << "missing responses" >> ELSE <<>>

validatePaths(entries) ==
    Concat(LAMBDA e :
        (IF ~startsWith(e.key, "/") THEN << "path must start with a forward slash" >>
         ELSE <<>>)
        \o
        (IF ~e.item.isNull
         THEN Concat(LAMBDA mo : validateOperation(mo.op), OpsOf(e.item, ValidatedMethods))
         ELSE <<>>),
        entries)

validateComponents(components) ==
    (IF Has(components.schemas)
     THEN Concat(LAMBDA s : IF s.schema.isNull THEN << "invalid schema definition" >>
                            ELSE <<>>,
                 Get(components.schemas))
     ELSE <<>>)
    \o
    (IF Has(components.securitySchemes)
     THEN Concat(LAMBDA s : IF ~Truthy(s.scheme.type) THEN << "scheme is missing type" >>
                            ELSE <<>>,
                 Get(components.securitySchemes))
     ELSE <<>>)

\* the errors validate() collects; isValid is errors.length === 0
validateErrors(d) ==
    (IF ~Has(d.openapi) THEN << "missing openapi" >>
     ELSE IF ~(startsWith(Get(d.openapi), "3") /\ Len(Get(d.openapi)) > 1
               /\ Get(d.openapi)[2] = ".")
     THEN << "unsupported version" >> ELSE <<>>)
    \o
    (IF ~Has(d.info) THEN << "missing info" >>
     ELSE (IF Get(d.info).title = "" THEN << "missing info.title" >> ELSE <<>>)
          \o (IF Get(d.info).version = "" THEN << "missing info.version" >> ELSE <<>>))
    \o
    (IF ~Has(d.paths) THEN << "missing paths" >> ELSE <<>>)
    \o
    (IF Has(d.paths) THEN validatePaths(Get(d.paths)) ELSE <<>>)
    \o
    (IF Has(d.components) THEN validateComponents(Get(d.components)) ELSE <<>>)

isValid(d) == Len(validateErrors(d)) = 0

-----------------------------------------------------------------------------
(* The constructor *)

DefaultWeights ==
    [schemaTypes |-> 20 * Unit, documentation |-> 20 * Unit,
     pathsOperations |-> 15 * Unit, responseCodes |-> 15 * Unit,
     examples |-> 10 * Unit, security |-> 10 * Unit, bestPractices |-> 10 * Unit]

WeightKeys == DOMAIN DefaultWeights

\* the spread ...config copies the properties of config, not the objects they
\* hold: a weights object that was given is the very object the engine keeps
Aliased(c) == Has(c) /\ Has(Get(c).weights)

\* this.config = { criteria, weights: <defaults>, ...config } : a weights
\* property of the argument replaces the default weights object as a whole
Constructed(c) ==
    IF Has(c) /\ Has(Get(c).weights) THEN Get(Get(c).weights) ELSE DefaultWeights

-----------------------------------------------------------------------------
(* Documents and configurations the model draws from *)

MaxPaths == 2
MaxResponses == 2

SeqsUpTo(S, n) == UNION {[1..k -> S] : k \in 0..n}
Distinct(s) == \A i, j \in 1..Len(s) : i # j => s[i] # s[j]

\* path keys
K_users == <<"/", "u", "s", "e", "r", "s">>
K_usersId == <<"/", "u", "s", "e", "r", "s", "/", "{", "i", "d", "}">>
K_usersUserId ==
    <<"/", "u", "s", "e", "r", "s", "/", "{", "u", "s", "e", "r", "I", "d", "}">>
K_orders == <<"/", "o", "r", "d", "e", "r", "s">>
K_userData == <<"/", "u", "s", "e", "r", "_", "d", "a", "t", "a">>
K_usersSlash == <<"/", "u", "s", "e", "r", "s", "/">>
K_userDataSlash == <<"/", "u", "s", "e", "r", "_", "d", "a", "t", "a", "/">>
K_root == <<"/">>
K_param == <<"/", "{", "i", "d", "}">>

\* status codes, in the order Object.keys lists them
StatusCodes ==
    << <<"2", "0", "0">>, <<"2", "0", "1">>, <<"2", "0", "2">>, <<"2", "0", "4">>,
       <<"4", "0", "0">>, <<"5", "0", "0">>, <<"d", "e", "f", "a", "u", "l", "t">> >>

Media(schema, example) ==
    [type |-> "application/json", schema |-> schema, example |-> example,
     examples |-> FALSE]

\* a response or request body with one media type, or with a description only
Body(schema, example) ==
    [schema |-> FALSE, example |-> FALSE, examples |-> FALSE,
     content |-> IF schema \/ example THEN Some(<< Media(schema, example) >>)
                 ELSE Absent]

\* the responses object with the codes of the index set I, every response alike
Responses(I, response) ==
    LET idx == filter(LAMBDA i : i \in I, [k \in 1..Len(StatusCodes) |-> k])
    IN [k \in 1..Len(idx) |-> [code |-> StatusCodes[idx[k]], response |-> response]]

\* an operation that documents, tags and secures itself
GoodOp(responses) ==
    [tags |-> Some(<<"users">>), summary |-> Some("s"), description |-> Some("d"),
     parameters |-> Some(<< [name |-> "id", description |-> Some("the id")] >>),
     requestBody |-> Absent, responses |-> responses, security |-> Some(<<"k">>)]

\* an operation with nothing but its responses
BareOp(responses) ==
    [tags |-> Absent, summary |-> Absent, description |-> Absent,
     parameters |-> Absent, requestBody |-> Absent, responses |-> responses,
     security |-> Absent]

Item(ops) == [isNull |-> FALSE, ops |-> ops]
NullItem == [isNull |-> TRUE, ops |-> <<>>]

GoodSchema ==
    [isNull |-> FALSE, type |-> Some("object"), ref |-> FALSE, allOf |-> FALSE,
     oneOf |-> FALSE, anyOf |-> FALSE, properties |-> TRUE,
     additionalProperties |-> FALSE]
BadSchema == [GoodSchema EXCEPT !.properties = FALSE]
UntypedSchema == [GoodSchema EXCEPT !.type = Absent]
NullSchema == [GoodSchema EXCEPT !.isNull = TRUE]

Components(schemas, schemes) == Some([schemas |-> schemas, securitySchemes |-> schemes])
OneScheme == Some(<< [name |-> "key", scheme |-> [type |-> Some("apiKey")]] >>)

GoodComponents == Components(Some(<< [name |-> "User", schema |-> GoodSchema] >>), OneScheme)

GoodInfo == Some([title |-> "Test", version |-> "2.1.0", description |-> Some("d")])
BareInfo == Some([title |-> "Test", version |-> "1.0.0", description |-> Absent])
DescribedInfo == Some([title |-> "Test", version |-> "1.0.0", description |-> Some("d")])

V3 == Some(<<"3", ".", "0", ".", "0">>)

Doc(openapi, info, servers, security, components, tags, paths) ==
    [openapi |-> openapi, info |-> info, servers |-> servers, security |-> security,
     components |-> components, tags |-> tags, paths |-> paths]

\* the paths objects of at most MaxPaths entries over the given entries
PathsOver(entries) ==
    { Some(s) : s \in { q \in SeqsUpTo(entries, MaxPaths) :
                          Distinct([i \in 1..Len(q) |-> q[i].key]) } }

Weights(a, b, c, d, e, f, g) ==
    [schemaTypes |-> a, documentation |-> b, pathsOperations |-> c,
     responseCodes |-> d, examples |-> e, security |-> f, bestPractices |-> g]

\* the arguments of the constructor: none, one without weights, the custom
\* weights of the integration test, weights that give only one of the seven,
\* fractional weights, weights smaller than the deductions, a negative weight
Configs ==
    { Absent,
      Some([weights |-> Absent]),
      Some([weights |-> Some(Weights(30 * Unit, 30 * Unit, 10 * Unit, 10 * Unit,
                                     5 * Unit, 10 * Unit, 5 * Unit))]),
      Some([weights |-> Some([schemaTypes |-> 30 * Unit])]),
      Some([weights |-> Some(Weights(20 * Unit, 20 * Unit, 15 * Unit, 15 * Unit,
                                     10 * Unit, 9996, 0))]),
      Some([weights |-> Some(Weights(2 * Unit, 2 * Unit, 2 * Unit, 2 * Unit,
                                     2 * Unit, 2 * Unit, 2 * Unit))]),
      Some([weights |-> Some(Weights(20 * Unit, 20 * Unit, 15 * Unit, 15 * Unit,
                                     10 * Unit, 10 * Unit, -5 * Unit))]) }

\* the paths of the end-to-end scenario: one bare GET /users answering 200
ScenarioPaths ==
    Some(<< [key |-> K_users,
             item |-> Item(<< [method |-> "get",
                               op |-> BareOp(Some(Responses({1}, Body(FALSE, FALSE))))] >>)] >>)

\* documents that differ in their top-level fields
GeneralEntries ==
    { [key |-> k, item |-> it] :
        k \in {K_users, K_usersId},
        it \in { NullItem,
                 Item(<< [method |-> "get", op |-> BareOp(Some(Responses({1}, Body(FALSE, FALSE))))] >>),
                 Item(<< [method |-> "get", op |-> GoodOp(Some(Responses({1, 5}, Body(TRUE, TRUE))))],
                         [method |-> "post", op |-> GoodOp(Some(Responses({2, 5}, Body(TRUE, TRUE))))] >>) } }

GeneralDocs ==
    { Doc(V3, info, servers, security, components, Some(<< [name |-> "users"] >>), paths) :
        info \in {Absent, BareInfo, DescribedInfo, GoodInfo},
        servers \in {Absent, Some(<<"https://api.example.com">>)},
        security \in {Absent, Some(<<"key">>)},
        components \in { Absent, Components(Absent, Absent), GoodComponents,
                         Components(Some(<< [name |-> "User", schema |-> BadSchema],
                                            [name |-> "Any", schema |-> UntypedSchema] >>), Absent),
                         Components(Some(<< [name |-> "User", schema |-> NullSchema] >>), OneScheme) },
        paths \in {Absent} \cup PathsOver(GeneralEntries) }

-----------------------------------------------------------------------------
(* The engine: construction, then score() *)

Init ==
    /\ pc = "ready"
    /\ given \in Configs
    /\ config = Constructed(given)
    /\ aliased = Aliased(given)
    /\ spec = Absent
    /\ report = Absent
    /\ calls = <<>>

\* what score(d) returns, or <<>> when it throws
Returned(d, w) == IF ScoreThrows(d) THEN Absent ELSE Some(Report(d, w))

\* a call that takes the inline deduction of Schema & Types off the weight
\* held in this.config instead of a local copy
CallConsumingWeights(d) ==
    /\ spec' = Some(d)
    /\ pc' = (IF ScoreThrows(d) THEN "threw" ELSE "scored")
    /\ report' = Returned(d, config)
    /\ calls' = Append(calls, [doc |-> d, report |-> report'])
    /\ config' = [config EXCEPT !.schemaTypes = @ - 5 * Unit]
    /\ given' = (IF aliased THEN Some([weights |-> Some(config')]) ELSE given)
    /\ UNCHANGED aliased

\* a call that collects the issues in a list the engine keeps between calls
CallKeepingIssues(d) ==
    /\ spec' = Some(d)
    /\ pc' = (IF ScoreThrows(d) THEN "threw" ELSE "scored")
    /\ report' = (IF ScoreThrows(d) THEN Absent
                  ELSE Some([Report(d, config) EXCEPT !.totalIssues =
                                @ + (IF Has(report) THEN Get(report).totalIssues ELSE 0)]))
    /\ calls' = Append(calls, [doc |-> d, report |-> report'])
    /\ UNCHANGED <<given, config, aliased>>

\* a call that begins with spec.paths = spec.paths || {}
CallNormalising(d) ==
    /\ spec' = Some([d EXCEPT !.paths = IF Has(@) THEN @ ELSE Some(<<>>)])
    /\ pc' = (IF ScoreThrows(d) THEN "threw" ELSE "scored")
    /\ report' = Returned(d, config)
    /\ calls' = Append(calls, [doc |-> d, report |-> report'])
    /\ UNCHANGED <<given, config, aliased>>

\* one call of score(d): it reads this.config and d and writes neither
Call(d) ==
    /\ spec' = Some(d)
    /\ IF ScoreThrows(d)
       THEN pc' = "threw" /\ report' = Absent
       ELSE pc' = "scored" /\ report' = Some(Report(d, config))
    /\ calls' = Append(calls, [doc |-> d, report |-> report'])
    /\ UNCHANGED <<given, config, aliased>>

\* the first call on a new engine
Score(d) ==
    /\ pc = "ready"
    /\ Call(d)

Next == \E d \in GeneralDocs : Score(d)

Spec == Init /\ [][Next]_vars

-----------------------------------------------------------------------------
(* Documents that differ in their paths, and in the responses of an operation *)

GetOnlyItem ==
    Item(<< [method |-> "get", op |-> GoodOp(Some(Responses({1, 5}, Body(TRUE, TRUE))))] >>)
GetPostItem ==
    Item(<< [method |-> "get", op |-> GoodOp(Some(Responses({1, 5}, Body(TRUE, TRUE))))],
            [method |-> "post", op |-> GoodOp(Some(Responses({2, 5}, Body(TRUE, TRUE))))] >>)

PathEntryPool ==
    { [key |-> k, item |-> it] :
        k \in { K_users, K_usersId, K_usersUserId, K_orders, K_userData,
                K_usersSlash, K_root, K_param },
        it \in { GetOnlyItem, GetPostItem } }

GoodDoc(paths) ==
    Doc(V3, GoodInfo, Some(<<"https://api.example.com">>), Some(<<"key">>),
        GoodComponents, Some(<< [name |-> "users"] >>), paths)

PathDocs == { GoodDoc(paths) : paths \in {Absent} \cup PathsOver(PathEntryPool) }

\* the responses objects of at most MaxResponses status codes
ResponsesPool ==
    {Absent} \cup
    { Some(Responses(I, Body(TRUE, TRUE))) :
        I \in { J \in SUBSET (1..Len(StatusCodes)) : Cardinality(J) <= MaxResponses } }

\* an operation with a summary and two parameters, one of them undescribed
ParamOp(responses) ==
    [BareOp(responses) EXCEPT
        !.summary = Some("s"),
        !.parameters = Some(<< [name |-> "id", description |-> Absent],
                               [name |-> "q", description |-> Some("a query")] >>)]

\* documents whose operations sit under the methods the engine walks and
\* under those it only counts
MethodDocs ==
    { GoodDoc(Absent), GoodDoc(Some(<<>>)) }
    \cup
    { GoodDoc(Some(<< [key |-> K_users,
                       item |-> Item(<< [method |-> "get", op |-> a],
                                        [method |-> "head", op |-> b] >>)],
                      [key |-> K_usersId,
                       item |-> Item(<< [method |-> m, op |-> b] >>)] >>)) :
        a \in {GoodOp(Absent), BareOp(Absent)},
        b \in {BareOp(Absent), ParamOp(Absent)},
        m \in {"patch", "trace"} }

OperationDocs ==
    { GoodDoc(Some(<< [key |-> K_users,
                       item |-> Item(<< [method |-> m, op |-> op] >>)] >>)) :
        m \in {"get", "post", "put", "delete", "options"},
        op \in UNION { {GoodOp(r), BareOp(r), ParamOp(r)} : r \in ResponsesPool } }
    \cup
    MethodDocs
    \cup
    { GoodDoc(Some(<< [key |-> K_users,
                       item |-> Item(<< [method |-> "post",
                                         op |-> GoodOp(Some(Responses(I, Body(TRUE, TRUE))))],
                                        [method |-> "delete",
                                         op |-> GoodOp(Some(Responses(J, Body(TRUE, TRUE))))] >>)] >>)) :
        I \in {{1, 5}, {3, 5}, {2, 6}}, J \in {{1, 5}, {4, 6}, {7, 5}} }

NextPaths == \E d \in PathDocs : Score(d)
SpecPaths == Init /\ [][NextPaths]_vars

NextOperations == \E d \in OperationDocs : Score(d)
SpecOperations == Init /\ [][NextOperations]_vars

-----------------------------------------------------------------------------
(* One engine scoring several documents, one call after the other *)

MaxCalls == 2

ReuseDocs ==
    { Doc(V3, info, Absent, Absent, components, Absent, paths) :
        info \in {BareInfo, GoodInfo},
        components \in {Absent, GoodComponents},
        paths \in { Absent, ScenarioPaths,
                    Some(<< [key |-> K_users, item |-> NullItem] >>) } }

\* a further call on an engine that has scored before; score() has no await,
\* so a call runs to its end before the next one begins
ScoreAgain(d) ==
    /\ pc # "ready"
    /\ Len(calls) < MaxCalls
    /\ Call(d)

NextReuse == \E d \in ReuseDocs : Score(d) \/ ScoreAgain(d)
SpecReuse == Init /\ [][NextReuse]_vars

-----------------------------------------------------------------------------
(* The caller keeps the configuration object it gave to the constructor *)

ChangedKeys == {"schemaTypes", "security"}
ChangedWeights == {0, 5 * Unit}

Put(w, k, v) == [x \in DOMAIN w \cup {k} |-> IF x = k THEN v ELSE w[x]]

\* the caller writes config.weights[k] = v: a write to the weights object,
\* which is the engine's own when the constructor took it over
SetWeight(k, v) ==
    /\ pc = "ready"
    /\ Aliased(given)
    /\ given' = Some([weights |-> Some(Put(Get(Get(given).weights), k, v))])
    /\ config' = (IF aliased THEN Put(config, k, v) ELSE config)
    /\ UNCHANGED <<pc, aliased, spec, report, calls>>

\* the caller writes config.weights = w: a write to the caller's object, of
\* which this.config is a copy; the engine keeps the weights object it has
ReplaceWeights(w) ==
    /\ pc = "ready"
    /\ Has(given)
    /\ given' = Some([weights |-> Some(w)])
    /\ aliased' = FALSE
    /\ UNCHANGED <<pc, config, spec, report, calls>>

NextConfig ==
    \/ \E k \in ChangedKeys, v \in ChangedWeights : SetWeight(k, v)
    \/ ReplaceWeights(DefaultWeights)
    \/ \E d \in ReuseDocs : Score(d)
SpecConfig == Init /\ [][NextConfig]_vars

-----------------------------------------------------------------------------
(* Documents that differ in what they say about security *)

\* an operation with the given security list
SecuredOp(security) == [GoodOp(Some(Responses({1, 5}, Body(TRUE, TRUE)))) EXCEPT !.security = security]

SecurityLists == {Absent, Some(<<>>), Some(<<"key">>)}

SecurityItems ==
    { Item(<< [method |-> m, op |-> SecuredOp(s)] >>) :
        m \in {"get", "post", "head"}, s \in SecurityLists }

SecurityDocs ==
    { Doc(V3, GoodInfo, Some(<<"https://api.example.com">>), security, components,
          Some(<< [name |-> "users"] >>), paths) :
        security \in SecurityLists,
        components \in { Absent, Components(Absent, Absent), Components(Absent, Some(<<>>)),
                         GoodComponents },
        paths \in {Absent}
                  \cup { Some(<< [key |-> K_users, item |-> a] >>) : a \in SecurityItems }
                  \cup { Some(<< [key |-> K_users, item |-> a],
                                 [key |-> K_orders, item |-> b] >>) :
                           a \in SecurityItems, b \in SecurityItems } }

NextSecurity == \E d \in SecurityDocs : Score(d)
SpecSecurity == Init /\ [][NextSecurity]_vars

-----------------------------------------------------------------------------
(* Documents that differ in the content of request bodies and responses *)

MediaOf(type, schema, example, examples) ==
    [type |-> type, schema |-> schema, example |-> example, examples |-> examples]

\* a request body or response with the given media-type entries
WithContent(entries) ==
    [schema |-> FALSE, example |-> FALSE, examples |-> FALSE, content |-> Some(entries)]

Json(schema, example) == MediaOf("application/json", schema, example, FALSE)
Xml(schema, examples) == MediaOf("application/xml", schema, FALSE, examples)

ContentPool ==
    { Body(FALSE, FALSE),
      [Body(FALSE, FALSE) EXCEPT !.schema = TRUE],
      [Body(FALSE, FALSE) EXCEPT !.example = TRUE],
      [Body(FALSE, FALSE) EXCEPT !.examples = TRUE],
      WithContent(<<>>),
      WithContent(<< Json(TRUE, FALSE) >>),
      WithContent(<< Json(FALSE, TRUE) >>),
      WithContent(<< Json(TRUE, TRUE) >>),
      WithContent(<< Json(FALSE, FALSE) >>),
      WithContent(<< Json(TRUE, FALSE), Xml(FALSE, FALSE) >>),
      WithContent(<< Json(FALSE, FALSE), Xml(TRUE, TRUE) >>),
      WithContent(<< Json(TRUE, FALSE), Xml(TRUE, FALSE) >>) }

SecondResponses ==
    { Body(FALSE, FALSE), WithContent(<< Json(TRUE, TRUE) >>),
      WithContent(<< Json(TRUE, FALSE), Xml(FALSE, FALSE) >>) }

ContentResponses ==
    {Absent}
    \cup { Some(<< [code |-> StatusCodes[1], response |-> a] >>) : a \in ContentPool }
    \cup { Some(<< [code |-> StatusCodes[1], response |-> a],
                   [code |-> StatusCodes[5], response |-> b] >>) :
             a \in ContentPool, b \in SecondResponses }

ContentDocs ==
    { GoodDoc(Some(<< [key |-> K_users,
                       item |-> Item(<< [method |-> m,
                                         op |-> [GoodOp(r) EXCEPT !.requestBody = q]] >>)] >>)) :
        m \in {"post", "head"},
        q \in {Absent} \cup { Some(a) : a \in ContentPool },
        r \in ContentResponses }

NextContent == \E d \in ContentDocs : Score(d)
SpecContent == Init /\ [][NextContent]_vars

-----------------------------------------------------------------------------
(* Documents that differ in the methods their paths define *)

PlainOp == GoodOp(Some(Responses({1, 5}, Body(TRUE, TRUE))))

MethodItems ==
    { GetOnlyItem, GetPostItem,
      Item(<< [method |-> "get", op |-> PlainOp], [method |-> "head", op |-> PlainOp] >>),
      Item(<< [method |-> "head", op |-> PlainOp] >>),
      Item(<<>>) }

ResourceEntries ==
    { [key |-> k, item |-> it] :
        k \in {K_users, K_usersId, K_orders, K_param, K_root, K_userData, K_userDataSlash},
        it \in MethodItems }

ResourceDocs ==
    { GoodDoc(Some(<< a >>)) : a \in ResourceEntries }
    \cup
    { GoodDoc(Some(<< ab[1], ab[2] >>)) :
        ab \in { q \in ResourceEntries \X ResourceEntries : q[1].key # q[2].key } }

NextResources == \E d \in ResourceDocs : Score(d)
SpecResources == Init /\ [][NextResources]_vars

-----------------------------------------------------------------------------
(* Documents that differ in their tags *)

TagLists ==
    { Absent, Some(<<>>), Some(<<"users">>), Some(<<"admin">>),
      Some(<<"users", "admin">>), Some(<<"admin", "admin">>) }

TaggedItems ==
    { Item(<< [method |-> m, op |-> [PlainOp EXCEPT !.tags = t]] >>) :
        m \in {"get", "head"}, t \in TagLists }

TagDocs ==
    { Doc(V3, GoodInfo, Some(<<"https://api.example.com">>), Some(<<"key">>),
          GoodComponents, tags, paths) :
        tags \in { Absent, Some(<<>>), Some(<< [name |-> "users"] >>),
                   Some(<< [name |-> "users"], [name |-> "admin"] >>) },
        paths \in {Absent}
                  \cup { Some(<< [key |-> K_users, item |-> a] >>) : a \in TaggedItems }
                  \cup { Some(<< [key |-> K_users, item |-> a],
                                 [key |-> K_orders, item |-> b] >>) :
                           a \in TaggedItems, b \in TaggedItems } }

NextTags == \E d \in TagDocs : Score(d)
SpecTags == Init /\ [][NextTags]_vars

-----------------------------------------------------------------------------
(* Claims *)

Scored == pc = "scored"
TheReport == Get(report)
TheDoc == Get(spec)
Criteria == 1..7

\* the documented penalty of a severity, in points
TablePenalty(severity) ==
    IF severity = "critical" THEN 5
    ELSE IF severity = "high" THEN 3
    ELSE IF severity = "medium" THEN 2
    ELSE 1

\* the sum of the documented penalties of the issues a result lists
ListedPenalty(r) ==
    LET f[i \in 0..Len(r.issues)] ==
            IF i = 0 THEN 0 ELSE f[i-1] + TablePenalty(r.issues[i].severity)
    IN f[Len(r.issues)]

ShortCircuited(i) == i = 3 /\ ~Has(TheDoc.paths)

\* C1: every criterion result other than the no-paths short-circuit has
\* score = max(0, weight - D), D being the sum of the penalties (critical 5,
\* high 3, medium 2, low 1) of the issues the result lists.
C1_ScoreIsWeightMinusListedPenalties ==
    Scored =>
        \A i \in Criteria :
            LET r == TheReport.results[i]
            IN ~ShortCircuited(i) =>
                  r.score = MathMax0(JsSub(r.weight, Pts(ListedPenalty(r))))

\* the sum of the seven weightedScore fields
SevenSum ==
    LET r == TheReport.results
    IN JsAdd(JsAdd(JsAdd(JsAdd(JsAdd(JsAdd(r[1].weightedScore, r[2].weightedScore),
             r[3].weightedScore), r[4].weightedScore), r[5].weightedScore),
             r[6].weightedScore), r[7].weightedScore)

\* x is y rounded to two decimal places: a multiple of a hundredth, the
\* nearest one, the upper one of two that are equally near
IsRounded2(x, y) ==
    IF IsNum(y)
    THEN /\ IsNum(x)
         /\ x.v % (Unit \div 100) = 0
         /\ 2 * (y.v - x.v) < Unit \div 100
         /\ 2 * (x.v - y.v) <= Unit \div 100
    ELSE x = NaN

\* C2: overallScore is the sum of the seven weightedScore fields, rounded to
\* two decimal places.
C2_OverallIsRoundedSum ==
    Scored => IsRounded2(TheReport.overallScore, SevenSum)

\* a report whose sum of weighted scores is not a multiple of a hundredth
C2_Witness ==
    Scored /\ IsNum(SevenSum) /\ SevenSum.v % (Unit \div 100) # 0

NonNegativeWeights == \A k \in WeightKeys : k \in DOMAIN config /\ config[k] >= 0

\* C3: with non-negative weights, every criterion result has
\* 0 <= score <= weight, however many issues it lists.
C3_ScoreWithinWeight ==
    (Scored /\ NonNegativeWeights) =>
        \A i \in Criteria :
            LET r == TheReport.results[i]
            IN IsNum(r.score) /\ 0 <= r.score.v /\ r.score.v <= r.weight.v

\* a result whose listed penalties exceed its positive weight, floored at zero
C3_Witness ==
    /\ Scored /\ NonNegativeWeights
    /\ \E i \in Criteria :
          LET r == TheReport.results[i]
          IN r.weight.v > 0 /\ ListedPenalty(r) * Unit > r.weight.v /\ r.score.v = 0

\* the grade of a score by the documented bands
BandOf(x) ==
    IF IsNum(x) /\ x.v >= 90 * Unit THEN "A"
    ELSE IF IsNum(x) /\ x.v >= 80 * Unit THEN "B"
    ELSE IF IsNum(x) /\ x.v >= 70 * Unit THEN "C"
    ELSE IF IsNum(x) /\ x.v >= 60 * Unit THEN "D"
    ELSE "F"

\* C4: the grade of a report is the band of its reported overallScore:
\* A from 90, B from 80, C from 70, D from 60, F below.
C4_GradeIsBandOfReportedScore ==
    Scored => TheReport.grade = BandOf(TheReport.overallScore)

\* C5: a document with zero paths (paths absent or without keys) scores 0 for
\* Paths & Operations, which lists exactly one issue, a critical one.
C5_ZeroPathsScoresZero ==
    (Scored /\ Len(PathEntries(TheDoc)) = 0) =>
        LET r == TheReport.results[3]
        IN /\ r.score = Num(0)
           /\ Len(r.issues) = 1
           /\ r.issues[1].severity = "critical"

\* C6: score() returns a report, and does not throw, for every document the
\* validator accepts.
C6_ValidDocumentNeverThrows ==
    (Has(spec) /\ isValid(TheDoc)) => pc # "threw"

CriterionKey ==
    << "schemaTypes", "documentation", "pathsOperations", "responseCodes",
       "examples", "security", "bestPractices" >>

GivenWeights ==
    IF Has(given) /\ Has(Get(given).weights) THEN Get(Get(given).weights)
    ELSE << >>

\* C7: every criterion is scored with the weight the configuration gives
\* for it, and with its default weight if the configuration gives none.
C7_UnspecifiedWeightsAreDefaults ==
    Scored =>
        \A i \in Criteria :
            LET k == CriterionKey[i]
            IN TheReport.results[i].weight =
                  IF k \in DOMAIN GivenWeights THEN Num(GivenWeights[k])
                  ELSE Num(DefaultWeights[k])

\* the lengths of the seven issue lists, summed
SevenLengths ==
    LET r == TheReport.results
    IN Len(r[1].issues) + Len(r[2].issues) + Len(r[3].issues) + Len(r[4].issues)
       + Len(r[5].issues) + Len(r[6].issues) + Len(r[7].issues)

\* C8: totalIssues is the sum of the four severity counts of the summary, and
\* the sum of the lengths of the seven issue lists.
C8_TotalIssuesAddUp ==
    Scored =>
        /\ TheReport.totalIssues =
              TheReport.summary.criticalIssues + TheReport.summary.highIssues
              + TheReport.summary.mediumIssues + TheReport.summary.lowIssues
        /\ TheReport.totalIssues = SevenLengths

\* a report with issues of all four severities
C8_Witness ==
    /\ Scored
    /\ TheReport.summary.criticalIssues > 0 /\ TheReport.summary.highIssues > 0
    /\ TheReport.summary.mediumIssues > 0 /\ TheReport.summary.lowIssues > 0

\* the places where a segment of a path starts: a character other than '/'
\* at the start of the path or right after a '/'
SegStarts(p) == { i \in 1..Len(p) : p[i] # "/" /\ (i = 1 \/ p[i-1] = "/") }
SegCount(p) == Cardinality(SegStarts(p))
\* the n-th segment of a path
Segment(p, n) ==
    LET from == CHOOSE i \in SegStarts(p) :
                    Cardinality({ j \in SegStarts(p) : j <= i }) = n
        to == CHOOSE j \in from..Len(p) :
                    /\ \A k \in from..j : p[k] # "/"
                    /\ (j = Len(p) \/ p[j+1] = "/")
    IN SubSeq(p, from, to)

\* two paths overlap: as many segments, and at every position equal segments
\* or a segment that starts with '{'
Overlap(p, q) ==
    /\ SegCount(p) = SegCount(q)
    /\ \A n \in 1..SegCount(p) :
          \/ Segment(p, n) = Segment(q, n)
          \/ Segment(p, n)[1] = "{"
          \/ Segment(q, n)[1] = "{"

OverlapIssues == filter(LAMBDA i : i.description = "Path overlaps with",
                        TheReport.results[3].issues)

\* the overlap issues that name the two paths, in either order
IssuesOfPair(p, q) ==
    filter(LAMBDA i : (i.path = p /\ i.detail = q) \/ (i.path = q /\ i.detail = p),
           OverlapIssues)

\* C9: one overlap issue for each unordered pair of distinct path keys that
\* overlap, none for a pair that does not and none for a path with itself;
\* the overlap test gives the same answer in both orders.
C9_OneIssuePerOverlappingPair ==
    (Scored /\ Has(TheDoc.paths)) =>
        LET keys == PathKeys(TheDoc)
            pairs == { pr \in (1..Len(keys)) \X (1..Len(keys)) : pr[1] < pr[2] }
        IN /\ \A pr \in pairs :
                 Len(IssuesOfPair(keys[pr[1]], keys[pr[2]])) =
                    IF Overlap(keys[pr[1]], keys[pr[2]]) THEN 1 ELSE 0
           /\ Len(OverlapIssues) =
                 Cardinality({ pr \in pairs : Overlap(keys[pr[1]], keys[pr[2]]) })
           /\ \A k \in 1..Len(OverlapIssues) :
                 OverlapIssues[k].path # OverlapIssues[k].detail
           /\ \A pr \in pairs :
                 pathsOverlap(keys[pr[1]], keys[pr[2]])
                    = pathsOverlap(keys[pr[2]], keys[pr[1]])

\* /users/{id} and /users/{userId} scored together: one overlap issue
C9_Witness ==
    /\ Scored
    /\ PathKeys(TheDoc) = << K_usersId, K_usersUserId >>
    /\ Len(OverlapIssues) = 1

\* every operation of the document, under any of the eight methods
AllOperations == Concat(LAMBDA e : OpsOf(e.item, CountedMethods), PathEntries(TheDoc))

HasCodeStarting(op, chars) ==
    /\ Has(op.responses)
    /\ \E i \in 1..Len(Get(op.responses)) : Get(op.responses)[i].code[1] \in chars
HasCode(op, code) ==
    /\ Has(op.responses)
    /\ \E i \in 1..Len(Get(op.responses)) : Get(op.responses)[i].code = code

\* every operation defines a 2xx or default response and a 4xx or 5xx one
SuccessAndErrorEverywhere ==
    \A i \in 1..Len(AllOperations) :
        LET op == AllOperations[i].op
        IN /\ HasCodeStarting(op, {"2"}) \/ HasCode(op, StatusCodes[7])
           /\ HasCodeStarting(op, {"4", "5"})

\* every POST lists 201 or 200 and every DELETE lists 204 or 200
ConventionalCodesEverywhere ==
    \A i \in 1..Len(AllOperations) :
        LET op == AllOperations[i].op
            m == AllOperations[i].method
        IN /\ m = "post" => HasCode(op, StatusCodes[2]) \/ HasCode(op, StatusCodes[1])
           /\ m = "delete" => HasCode(op, StatusCodes[4]) \/ HasCode(op, StatusCodes[1])

\* C10 as stated: if every operation defines a 2xx or default response and
\* a 4xx or 5xx response, Response Codes lists no issue.
C10_SuccessAndErrorMeansNoIssue ==
    (Scored /\ SuccessAndErrorEverywhere) => Len(TheReport.results[4].issues) = 0

\* C10, amended: if every operation defines a 2xx or default response and a
\* 4xx or 5xx response, every POST lists 201 or 200 and every DELETE lists
\* 204 or 200, then Response Codes lists no issue in the report.
C10_ConventionalCodesMeanNoIssue ==
    (Scored /\ SuccessAndErrorEverywhere /\ ConventionalCodesEverywhere) =>
        Len(TheReport.results[4].issues) = 0

\* a POST and a DELETE that meet the conditions, scored
C10_Witness ==
    /\ Scored /\ SuccessAndErrorEverywhere /\ ConventionalCodesEverywhere
    /\ \E i, j \in 1..Len(AllOperations) :
          AllOperations[i].method = "post" /\ AllOperations[j].method = "delete"


-----------------------------------------------------------------------------
(* The end-to-end scenario: a document with one bare GET /users *)

IsScenario(d) ==
    /\ Has(d.info) /\ Get(d.info).version = "1.0.0"
    /\ ~Has(d.servers) /\ ~Has(d.security) /\ ~Has(d.components)
    /\ d.paths = ScenarioPaths

ScenarioScored == Scored /\ IsScenario(TheDoc)

IssueCount(i) == Len(TheReport.results[i].issues)

\* C11 (as stated): the scenario document has 1 Paths & Operations issue,
\* 1 Response Codes issue, 1 Documentation issue, 3 Security issues,
\* 3 Best Practices issues and 1 Examples issue
C11_ScenarioCountsAsStated ==
    ScenarioScored =>
        /\ IssueCount(3) = 1 /\ IssueCount(4) = 1 /\ IssueCount(2) = 1
        /\ IssueCount(6) = 3 /\ IssueCount(7) = 3 /\ IssueCount(5) = 1

\* C11 (amended): the scenario document has 1 Paths & Operations issue,
\* 1 Response Codes issue, 3 Security issues, 1 Examples issue, 4 Best
\* Practices issues (the untagged operation is the fourth), and 1 Documentation
\* issue for the operation plus 1 when info has no description
C11_ScenarioCounts ==
    ScenarioScored =>
        /\ IssueCount(3) = 1 /\ IssueCount(4) = 1 /\ IssueCount(5) = 1
        /\ IssueCount(6) = 3
        /\ IssueCount(7) = 4
        /\ IssueCount(2) = (IF Has(Get(TheDoc.info).description) THEN 1 ELSE 2)

C11_Witness ==
    /\ ScenarioScored
    /\ ~Has(Get(TheDoc.info).description)
    /\ \E i \in 1..IssueCount(7) :
          TheReport.results[7].issues[i].description = "operations are not tagged"

ScenarioScoredByDefault == ScenarioScored /\ config = DefaultWeights

\* C12 (as stated): the scenario document, scored with the default weights,
\* gets the grade F
C12_ScenarioGradeIsF ==
    ScenarioScoredByDefault => TheReport.grade = "F"

\* C12 (amended): the scenario document, scored with the default weights, gets
\* the grade D, with an overall score of 63, or 67 when info has a description
C12_ScenarioGradeIsD ==
    ScenarioScoredByDefault =>
        /\ TheReport.grade = "D"
        /\ TheReport.overallScore =
              (IF Has(Get(TheDoc.info).description) THEN Pts(67) ELSE Pts(63))

C12_Witness ==
    /\ ScenarioScoredByDefault
    /\ ~Has(given)
    /\ ~Has(Get(TheDoc.info).description)
    /\ TheReport.results[6].score = Pts(0)

-----------------------------------------------------------------------------
(* Repeated calls on one engine *)

Calls == 1..Len(calls)

\* C13: two score() calls of one engine on the same document return the same
\* overallScore, grade, per-criterion results and issue lists (both throw, or
\* both return equal reports)
C13_SameDocumentSameReport ==
    \A i, j \in Calls :
        calls[i].doc = calls[j].doc => calls[i].report = calls[j].report

C13_Witness ==
    /\ Len(calls) = 2
    /\ calls[1].doc = calls[2].doc
    /\ Has(calls[2].report)
    /\ Get(calls[2].report).totalIssues > 0

-----------------------------------------------------------------------------
(* Custom weights *)

AllSevenGiven == Aliased(given) /\ DOMAIN GivenWeights = WeightKeys

GivenTotal ==
    LET f[i \in 0..7] == IF i = 0 THEN 0 ELSE f[i-1] + GivenWeights[CriterionKey[i]]
    IN f[7]

SevenScores ==
    LET r == TheReport.results
    IN JsAdd(JsAdd(JsAdd(JsAdd(JsAdd(JsAdd(r[1].score, r[2].score), r[3].score),
             r[4].score), r[5].score), r[6].score), r[7].score)

WeightsAsGiven ==
    \A i \in Criteria :
        LET r == TheReport.results[i]
        IN /\ r.weight = Num(GivenWeights[CriterionKey[i]])
           /\ r.maxScore = r.weight
           /\ r.weightedScore = r.score

\* C14 (as stated): with all seven weights given, every result reports
\* weight = maxScore = the configured weight and weightedScore = score, and
\* overallScore is the plain sum of the seven scores
C14_OverallIsPlainSum ==
    (Scored /\ AllSevenGiven) =>
        WeightsAsGiven /\ TheReport.overallScore = SevenScores

\* C14 (amended): with all seven weights given, every result reports
\* weight = maxScore = the configured weight and weightedScore = score, and
\* overallScore is the sum of the seven scores rounded to two decimal places,
\* not scaled to 100
C14_OverallIsRoundedPlainSum ==
    (Scored /\ AllSevenGiven) =>
        WeightsAsGiven /\ IsRounded2(TheReport.overallScore, SevenScores)

C14_Witness ==
    /\ Scored /\ AllSevenGiven
    /\ GivenTotal = 14 * Unit
    /\ IsNum(TheReport.overallScore) /\ TheReport.overallScore.v > 0

-----------------------------------------------------------------------------
(* The shape of the report *)

CriterionNames ==
    << "Schema & Types", "Descriptions & Documentation", "Paths & Operations",
       "Response Codes", "Examples & Samples", "Security", "Best Practices" >>

\* C15: every report has exactly seven criterion results, in the order Schema &
\* Types, Descriptions & Documentation, Paths & Operations, Response Codes,
\* Examples & Samples, Security, Best Practices, also for a document without
\* paths
C15_SevenResultsInOrder ==
    Scored =>
        /\ Len(TheReport.results) = 7
        /\ \A i \in Criteria : TheReport.results[i].criterion = CriterionNames[i]

C15_Witness ==
    Scored /\ ~Has(TheDoc.paths) /\ TheReport.results[3].issues = << NoPathsIssue >>

EightMethods == {"get", "put", "post", "delete", "options", "head", "patch", "trace"}

\* the (path, method) pairs of the document that hold an operation
MethodEntries ==
    { pm \in (1..Len(PathEntries(TheDoc))) \X EightMethods :
        \E k \in 1..Len(PathEntries(TheDoc)[pm[1]].item.ops) :
            PathEntries(TheDoc)[pm[1]].item.ops[k].method = pm[2] }

\* C16: specInfo.pathCount is the number of path keys and
\* specInfo.operationCount the number of (path, method) entries over the eight
\* methods; both are 0 for a document without paths
C16_PathAndOperationCounts ==
    Scored =>
        /\ TheReport.specInfo.pathCount =
              Cardinality({ PathKeys(TheDoc)[i] : i \in 1..Len(PathKeys(TheDoc)) })
        /\ TheReport.specInfo.operationCount = Cardinality(MethodEntries)
        /\ ~Has(TheDoc.paths) =>
              TheReport.specInfo.pathCount = 0 /\ TheReport.specInfo.operationCount = 0

C16_Witness ==
    /\ Scored
    /\ TheReport.specInfo.pathCount = 2
    /\ TheReport.specInfo.operationCount = 3
    /\ \E pm \in MethodEntries : pm[2] = "trace"

-----------------------------------------------------------------------------
(* The configuration after construction *)

\* C17: the weights an engine scores with are fixed at construction: no step
\* after it, a score() call or a change the caller makes to the configuration
\* object it passed, changes them
C17_WeightsFixedAtConstruction == [][config' = config]_vars

-----------------------------------------------------------------------------
(* What a call leaves behind *)

LastCall == calls[Len(calls)]

\* C18: score() leaves its document unchanged: after the call, whether it
\* returned or threw, the caller's document has in every field the value it
\* was passed with
C18_DocumentUnchanged ==
    pc # "ready" => TheDoc = LastCall.doc

C18_Witness ==
    /\ Scored
    /\ TheDoc = LastCall.doc
    /\ ~Has(TheDoc.paths) /\ ~Has(TheDoc.components)
    /\ TheReport.totalIssues > 0

-----------------------------------------------------------------------------
(* Documentation of operations *)

DocumentationIssuesAt(path, method, description, detail) ==
    LET issues == TheReport.results[2].issues
    IN Cardinality({ k \in 1..Len(issues) :
                        /\ issues[k].path = path
                        /\ issues[k].operation = method
                        /\ issues[k].description = description
                        /\ issues[k].detail = detail })

\* C20: Documentation lists exactly one medium issue for every operation under
\* any of the eight counted methods that has neither summary nor description
\* (and none for an operation that has one), and exactly one low issue for
\* every parameter of an operation that has no description
C20_EveryOperationIsChecked ==
    Scored =>
        \A pm \in MethodEntries :
            LET e == PathEntries(TheDoc)[pm[1]]
                op == Get(GetOp(e.item, pm[2]))
                params == IF Has(op.parameters) THEN Get(op.parameters) ELSE <<>>
            IN /\ DocumentationIssuesAt(e.key, pm[2],
                      "Operation lacks summary and description", <<>>)
                    = (IF ~Has(op.summary) /\ ~Has(op.description) THEN 1 ELSE 0)
               /\ \A k \in 1..Len(params) :
                     DocumentationIssuesAt(e.key, pm[2],
                         "Parameter lacks description", << params[k].name >>)
                       = (IF ~Has(params[k].description) THEN 1 ELSE 0)

-----------------------------------------------------------------------------
(* Security *)

\* the issues of criterion i at a path and method with a description
IssuesAt(i, path, method, description) ==
    LET issues == TheReport.results[i].issues
    IN Cardinality({ k \in 1..Len(issues) :
                        /\ issues[k].path = path
                        /\ issues[k].operation = method
                        /\ issues[k].description = description })

\* the issues of criterion i with a description, wherever they point
IssuesSaying(i, description) ==
    LET issues == TheReport.results[i].issues
    IN Cardinality({ k \in 1..Len(issues) : issues[k].description = description })

NonEmpty(list) == Has(list) /\ Len(Get(list)) > 0

\* C21: Security lists a medium issue for an operation exactly when neither
\* the document nor the operation has a non-empty security list; with a
\* non-empty global list no operation is flagged; the issues for missing
\* schemes and missing global security appear at most once
C21_UnsecuredOperationsAreFlagged ==
    Scored =>
        /\ \A pm \in MethodEntries :
              LET e == PathEntries(TheDoc)[pm[1]]
                  op == Get(GetOp(e.item, pm[2]))
              IN IssuesAt(6, e.key, pm[2], "Operation has no security requirements")
                   = (IF ~NonEmpty(TheDoc.security) /\ ~NonEmpty(op.security) THEN 1 ELSE 0)
        /\ NonEmpty(TheDoc.security) =>
              IssuesSaying(6, "Operation has no security requirements") = 0
        /\ IssuesSaying(6, "No security schemes defined") <= 1
        /\ IssuesSaying(6, "No global security requirements defined") <= 1


EveryOperationSecured ==
    \A pm \in MethodEntries :
        NonEmpty(Get(GetOp(PathEntries(TheDoc)[pm[1]].item, pm[2])).security)

SchemesDefined ==
    /\ Has(TheDoc.components)
    /\ NonEmpty(Get(TheDoc.components).securitySchemes)

\* C22: with the default weights, a document with at least one security
\* scheme whose operations all carry a non-empty security list scores at
\* least 5 of 10 for Security, with or without global security
C22_SecuredOperationsScoreHalf ==
    (Scored /\ config = DefaultWeights /\ SchemesDefined /\ EveryOperationSecured) =>
        /\ IsNum(TheReport.results[6].score)
        /\ TheReport.results[6].score.v >= 5 * Unit
        /\ TheReport.results[6].maxScore = Pts(10)

C22_Witness ==
    /\ Scored /\ config = DefaultWeights /\ SchemesDefined /\ EveryOperationSecured
    /\ ~NonEmpty(TheDoc.security)
    /\ Cardinality(MethodEntries) = 2
    /\ TheReport.results[6].score = Pts(5)

-----------------------------------------------------------------------------
(* Schemas and examples of request bodies and responses *)

\* the issues of criterion i at a path and method with a description and detail
IssuesWith(i, path, method, description, detail) ==
    LET issues == TheReport.results[i].issues
    IN Cardinality({ k \in 1..Len(issues) :
                        /\ issues[k].path = path
                        /\ issues[k].operation = method
                        /\ issues[k].description = description
                        /\ issues[k].detail = detail })

MediaEntries(obj) == IF Has(obj.content) THEN Get(obj.content) ELSE <<>>

\* every media-type entry of the object carries a schema, and there is one
SchemaAtEveryMediaType(obj) ==
    /\ Len(MediaEntries(obj)) > 0
    /\ \A k \in 1..Len(MediaEntries(obj)) : MediaEntries(obj)[k].schema

\* C23: Schema & Types lists exactly one medium issue for each request body
\* and each response of an operation that lacks a schema at one of its
\* media types or has none at all, and no issue for one whose media-type
\* entries all carry a schema
C23_MissingSchemasAreFlagged ==
    Scored =>
        \A pm \in MethodEntries :
            LET e == PathEntries(TheDoc)[pm[1]]
                op == Get(GetOp(e.item, pm[2]))
                responses == IF Has(op.responses) THEN Get(op.responses) ELSE <<>>
            IN /\ IssuesWith(1, e.key, pm[2],
                      "Request body lacks proper schema definition", <<>>)
                    = (IF Has(op.requestBody) /\ ~SchemaAtEveryMediaType(Get(op.requestBody))
                       THEN 1 ELSE 0)
               /\ \A k \in 1..Len(responses) :
                     IssuesWith(1, e.key, pm[2],
                         "Response lacks proper schema definition", responses[k].code)
                       = (IF ~SchemaAtEveryMediaType(responses[k].response) THEN 1 ELSE 0)


\* the object carries an example or examples value, itself or in a media type
CarriesExample(obj) ==
    \/ obj.example \/ obj.examples
    \/ \E k \in 1..Len(MediaEntries(obj)) :
          MediaEntries(obj)[k].example \/ MediaEntries(obj)[k].examples

\* C24: Examples lists exactly one low issue for each operation in which
\* neither the request body nor any response carries an example or examples
\* value, and none for an operation in which one of them does
C24_OperationsWithoutExamplesAreFlagged ==
    Scored =>
        \A pm \in MethodEntries :
            LET e == PathEntries(TheDoc)[pm[1]]
                op == Get(GetOp(e.item, pm[2]))
                responses == IF Has(op.responses) THEN Get(op.responses) ELSE <<>>
                hasExamples ==
                    \/ Has(op.requestBody) /\ CarriesExample(Get(op.requestBody))
                    \/ \E k \in 1..Len(responses) : CarriesExample(responses[k].response)
            IN IssuesAt(5, e.key, pm[2], "Operation lacks examples")
                 = (IF hasExamples THEN 0 ELSE 1)

-----------------------------------------------------------------------------
(* Resources *)

\* the positions of the segments of a path that are not parameters
PlainSegments(p) == { n \in 1..SegCount(p) : Segment(p, n)[1] # "{" }

\* the last segment of a path that is not a parameter
ResourceOf(p) ==
    Segment(p, CHOOSE n \in PlainSegments(p) : \A m \in PlainSegments(p) : m <= n)

\* the paths of the document with the resource of its i-th path
GroupOf(i) ==
    LET keys == PathKeys(TheDoc)
    IN { j \in 1..Len(keys) :
            PlainSegments(keys[j]) # {} /\ ResourceOf(keys[j]) = ResourceOf(keys[i]) }

MethodsOfPath(i) == { pm \in MethodEntries : pm[1] = i }

LoneResource(i) ==
    /\ PlainSegments(PathKeys(TheDoc)[i]) # {}
    /\ Cardinality(GroupOf(i)) = 1
    /\ Cardinality(MethodsOfPath(i)) = 1

\* C25: the incomplete-CRUD rule lists one low issue for a path exactly when
\* no other path shares its last non-parameter segment and the path defines
\* exactly one HTTP method; paths that share a resource, paths with two or
\* more methods and paths of parameters only are not flagged
C25_LoneResourcesAreFlagged ==
    Scored =>
        /\ \A i \in 1..Len(PathKeys(TheDoc)) :
              IssuesAt(3, PathKeys(TheDoc)[i], "", "Resource only has one operation")
                = (IF LoneResource(i) THEN 1 ELSE 0)
        /\ IssuesSaying(3, "Resource only has one operation")
             = Cardinality({ i \in 1..Len(PathKeys(TheDoc)) : LoneResource(i) })

-----------------------------------------------------------------------------
(* Response codes of an operation *)

NoSuccessText == "No success response (2xx) defined"
NoErrorText == "No error responses (4xx/5xx) defined"
PostText == "POST operation should typically return 201 (Created) or 200"
DeleteText == "DELETE operation should typically return 204 (No Content) or 200"

\* C26: for each operation Response Codes lists one high issue exactly when
\* no status code starts with '2' or is `default`, one medium issue exactly
\* when none starts with '4' or '5', one low issue for a POST without 201 and
\* 200 and one for a DELETE without 204 and 200, and nothing else
C26_ResponseCodeIssuesPerOperation ==
    Scored =>
        /\ \A pm \in MethodEntries :
              LET e == PathEntries(TheDoc)[pm[1]]
                  m == pm[2]
                  op == Get(GetOp(e.item, m))
              IN /\ IssuesAt(4, e.key, m, NoSuccessText)
                      = (IF HasCodeStarting(op, {"2"}) \/ HasCode(op, StatusCodes[7])
                         THEN 0 ELSE 1)
                 /\ IssuesAt(4, e.key, m, NoErrorText)
                      = (IF HasCodeStarting(op, {"4", "5"}) THEN 0 ELSE 1)
                 /\ IssuesAt(4, e.key, m, PostText)
                      = (IF m = "post" /\ ~HasCode(op, StatusCodes[2])
                                       /\ ~HasCode(op, StatusCodes[1])
                         THEN 1 ELSE 0)
                 /\ IssuesAt(4, e.key, m, DeleteText)
                      = (IF m = "delete" /\ ~HasCode(op, StatusCodes[4])
                                         /\ ~HasCode(op, StatusCodes[1])
                         THEN 1 ELSE 0)
        /\ \A k \in 1..IssueCount(4) :
              TheReport.results[4].issues[k].description
                 \in {NoSuccessText, NoErrorText, PostText, DeleteText}

-----------------------------------------------------------------------------
(* Tags *)

TagsOf(op) == IF Has(op.tags) THEN { Get(op.tags)[k] : k \in 1..Len(Get(op.tags)) } ELSE {}

\* the tags that some operation of the document refers to
ReferencedTags == UNION { TagsOf(AllOperations[i].op) : i \in 1..Len(AllOperations) }

DeclaredTags ==
    IF Has(TheDoc.tags)
    THEN { Get(TheDoc.tags)[k].name : k \in 1..Len(Get(TheDoc.tags)) }
    ELSE {}

SomeOperationUntagged ==
    \E i \in 1..Len(AllOperations) : TagsOf(AllOperations[i].op) = {}

\* C27: Best Practices lists one low issue for each distinct tag that some
\* operation refers to and the top-level tag list does not define, and one
\* single low issue when at least one operation has no tags; neither when
\* every operation is tagged with defined tags only
C27_TagIssues ==
    Scored =>
        /\ \A tag \in ReferencedTags :
              IssuesWith(7, Lit("/tags"), "", "Tag is used but not defined", <<tag>>)
                = (IF tag \in DeclaredTags THEN 0 ELSE 1)
        /\ IssuesSaying(7, "Tag is used but not defined")
             = Cardinality(ReferencedTags \ DeclaredTags)
        /\ IssuesSaying(7, "operations are not tagged")
             = (IF SomeOperationUntagged THEN 1 ELSE 0)

-----------------------------------------------------------------------------
(* Path naming *)

HasUnderscore(p) == \E k \in 1..Len(p) : p[k] = "_"
HasTrailingSlash(p) == Len(p) > 1 /\ p[Len(p)] = "/"

\* C28: path naming lists one low issue for every path key that contains '_'
\* and one for every path key other than '/' that ends with '/'; a path with
\* both gets two, the root path gets none for its slash
C28_PathNamingIssues ==
    Scored =>
        /\ \A i \in 1..Len(PathKeys(TheDoc)) :
              LET p == PathKeys(TheDoc)[i]
              IN /\ IssuesAt(3, p, "", "Path uses underscores")
                      = (IF HasUnderscore(p) THEN 1 ELSE 0)
                 /\ IssuesAt(3, p, "", "Path has trailing slash")
                      = (IF HasTrailingSlash(p) THEN 1 ELSE 0)
        /\ IssuesSaying(3, "Path uses underscores")
             = Cardinality({ i \in 1..Len(PathKeys(TheDoc)) : HasUnderscore(PathKeys(TheDoc)[i]) })
        /\ IssuesSaying(3, "Path has trailing slash")
             = Cardinality({ i \in 1..Len(PathKeys(TheDoc)) : HasTrailingSlash(PathKeys(TheDoc)[i]) })

C28_Witness ==
    /\ Scored
    /\ PathKeys(TheDoc) = << K_userDataSlash, K_root >>
    /\ IssuesAt(3, K_userDataSlash, "", "Path uses underscores") = 1
    /\ IssuesAt(3, K_userDataSlash, "", "Path has trailing slash") = 1
    /\ IssuesAt(3, K_root, "", "Path has trailing slash") = 0

-----------------------------------------------------------------------------
(* Full credit *)

PositiveWeight(r) == IsNum(r.weight) /\ r.weight.v > 0

\* C29: a criterion of positive weight has score = weight exactly when it
\* lists no issue: without issues the score is the weight, with at least one
\* issue it is below the weight
C29_FullCreditIffNoIssues ==
    Scored =>
        \A i \in Criteria :
            LET r == TheReport.results[i]
            IN PositiveWeight(r) =>
                 /\ IsNum(r.score)
                 /\ (Len(r.issues) = 0 => r.score = r.weight)
                 /\ (Len(r.issues) > 0 => r.score.v < r.weight.v)

C29_Witness ==
    /\ Scored
    /\ \E i, j \in Criteria :
          LET r == TheReport.results[i]
              q == TheReport.results[j]
          IN /\ PositiveWeight(r) /\ Len(r.issues) = 0 /\ r.score = r.weight
             /\ PositiveWeight(q) /\ Len(q.issues) = 1
             /\ q.issues[1].severity = "low" /\ q.score.v = q.weight.v - Unit

-----------------------------------------------------------------------------
(* The overall score under the default weights *)

ScoredByDefault == Scored /\ config = DefaultWeights

\* C30: with the default weights the overall score of every document is an
\* integer from 0 to 100, it is 100 only if the report lists no issue, and
\* the maxScore of the report is 100
C30_DefaultScoreIsIntegerUpTo100 ==
    ScoredByDefault =>
        /\ IsNum(TheReport.overallScore)
        /\ TheReport.overallScore.v % Unit = 0
        /\ 0 <= TheReport.overallScore.v /\ TheReport.overallScore.v <= 100 * Unit
        /\ (TheReport.overallScore.v = 100 * Unit => TheReport.totalIssues = 0)
        /\ TheReport.maxScore = 100

C30_Witness ==
    /\ ScoredByDefault
    /\ TheReport.overallScore = Pts(100)
    /\ TheReport.totalIssues = 0
    /\ Has(TheDoc.paths) /\ Len(PathEntries(TheDoc)) > 0

=============================================================================
